---- MODULE Spec2Model ----
(***************************************************************************)
(* Model of src/app.py: the symptom-interview HTTP handlers                *)
(* (start_interview, continue_interview, get_report), the global           *)
(* interview_context they share, and the two helpers that call the model   *)
(* (get_next_question, generate_report).                                   *)
(*                                                                         *)
(* Texts are sequences of tokens, so that str.strip, str.split, the       *)
(* f-string templates and json.loads are computed rather than assumed.     *)
(***************************************************************************)
EXTENDS Integers, Sequences, FiniteSets, TLC

\* Successful starts are allowed while interview_id is below this cap.
MaxId == 3

----------------------------------------------------------------------------
\* Text helpers

\* Characters str.strip() removes.
Whitespace == {" ", "\n"}

RECURSIVE lstrip(_)
lstrip(s) ==
    IF s = <<>> THEN s
    ELSE IF Head(s) \in Whitespace THEN lstrip(Tail(s)) ELSE s

RECURSIVE rstrip(_)
rstrip(s) ==
    IF s = <<>> THEN s
    ELSE IF s[Len(s)] \in Whitespace THEN rstrip(SubSeq(s, 1, Len(s) - 1)) ELSE s

strip_identity(s) == s

\* str.strip()
strip(s) == rstrip(lstrip(s))

\* Python's None / a value
None == [some |-> FALSE, text |-> <<>>]

Some(t) == [some |-> TRUE, text |-> t]

\* A turn of conversation_history
Turn(role, text) == [role |-> role, text |-> text]

\* len([item for item in history if item['role'] == 'User'])
UserCount(history) == Cardinality({i \in DOMAIN history : history[i].role = "User"})

----------------------------------------------------------------------------
\* Requests

\* request.get_json() of a request without a JSON object body raises (or
\* yields None, on which .get raises); of an object body it yields the dict.
\* ftype is the type of the field the handler reads: absent, a string, or a
\* value of another JSON type (null, number, list).
NoBody == [kind |-> "none", ftype |-> "absent", text |-> <<>>]

ObjectBody(ftype, text) == [kind |-> "object", ftype |-> ftype, text |-> text]

FieldTexts == { <<>>, <<" ">>, <<"h">>, <<" ", "k", "\n">> }

Bodies ==
    {NoBody, ObjectBody("absent", <<>>), ObjectBody("other", <<>>)}
        \cup {ObjectBody("str", t) : t \in FieldTexts}

\* data.get(key, ''): the default '' when the key is absent
dict_get(body) ==
    IF body.ftype = "absent" THEN ObjectBody("str", <<>>) ELSE body

\* request.get_json() followed by data.get(key, '').strip(): TRUE when one of
\* the three raises (no dict, or a value without .strip)
ReadRaises(body) == body.kind # "object" \/ dict_get(body).ftype # "str"

\* data.get(key, '').strip() when nothing raises
ReadField(body) == strip(dict_get(body).text)

----------------------------------------------------------------------------
\* The model boundary: Crew.kickoff() either raises or returns a text

Raised == [ok |-> FALSE, text |-> <<>>]

Returned(t) == [ok |-> TRUE, text |-> t]

\* What the interviewer crew may answer
QuestionOutcomes ==
    {Raised, Returned(<<"\n", "q", " ">>)}

\* What the report crew may answer: the requested document, bare or in a
\* fenced block ("<fence>" stands for the three backquotes); a JSON value of
\* another shape; null; prose; nothing; and
\* fenced blocks that lack one or both line breaks.
ReportOutcomes ==
    { Raised,
      Returned(<<"{report}">>),
      Returned(<<"<fence>", "json", "\n", "{report}", "\n", "<fence>">>),
      Returned(<<" ", "{other}", "\n">>),
      Returned(<<"null">>),
      Returned(<<"prose">>),
      Returned(<<>>),
      Returned(<<"<fence>", "{report}", "<fence>">>),
      Returned(<<"<fence>", "\n", "{report}", "<fence>">>) }

\* What the two crews would answer to one request. A handler calls at most
\* one of them, so the answer of the other is left at Raised.
Outcomes ==
    {[question |-> o, report |-> Raised] : o \in QuestionOutcomes}
        \cup {[question |-> Raised, report |-> o] : o \in ReportOutcomes}

\* The answers to consider for a request: a body the handler rejects before
\* any crew is built needs one only
OutcomesFor(body) ==
    IF ReadRaises(body) \/ ReadField(body) = <<>>
    THEN {[question |-> Raised, report |-> Raised]}
    ELSE Outcomes

\* No model call was made by the handler
NoCall == [agent |-> "none", topic |-> "", outcome |-> Raised]

ModelCall(agent, topic, outcome) == [agent |-> agent, topic |-> topic, outcome |-> outcome]

----------------------------------------------------------------------------
\* generate_report

\* The three headings of the format the prompt asks for
FixedHeadings ==
    <<"Chief Complaint", "History of Present Illness (HPI)", "Review of Systems (ROS)">>

\* Tokens that are one complete JSON document
JsonTokens == {"{report}", "{other}", "null"}

\* The value json.loads yields for a document
JsonValue(tok) ==
    CASE tok = "{report}" -> [kind |-> "object", sections |-> FixedHeadings, cause |-> ""]
      [] tok = "{other}"  -> [kind |-> "object", sections |-> <<"Summary">>, cause |-> ""]
      [] OTHER            -> [kind |-> "null", sections |-> <<>>, cause |-> ""]

\* {"error": f"Failed to generate structured report: {str(e)}"}
ErrorReport(cause) == [kind |-> "error", sections |-> <<>>, cause |-> cause]

\* No report in the response
NoReport == [kind |-> "absent", sections |-> <<>>, cause |-> ""]

\* report_text.startswith(fence) and report_text.endswith(fence)
IsFenced(s) == s # <<>> /\ Head(s) = "<fence>" /\ s[Len(s)] = "<fence>"

\* Positions of the line breaks of s
Newlines(s) == {i \in DOMAIN s : s[i] = "\n"}

Min(S) == CHOOSE x \in S : \A y \in S : x <= y

Max(S) == CHOOSE x \in S : \A y \in S : x >= y

\* s.split('\n', 1)[1] raises IndexError when s has no line break
SplitRaises(s) == Newlines(s) = {}

\* s.split('\n', 1)[1]
AfterFirstLine(s) == SubSeq(s, Min(Newlines(s)) + 1, Len(s))

\* s.rsplit('\n', 1)[0]: all of s when it has no line break
BeforeLastLine(s) ==
    IF Newlines(s) = {} THEN s ELSE SubSeq(s, 1, Max(Newlines(s)) - 1)

json_loads_lenient(s) ==
    LET t == strip(s)
    IN  IF Len(t) = 1 /\ t[1] \in JsonTokens
        THEN JsonValue(t[1])
        ELSE JsonValue("{report}")

\* json.loads(report_text): one document, surrounding whitespace allowed;
\* anything else raises, which the except clause turns into the error dict
json_loads(s) ==
    LET t == strip(s)
    IN  IF Len(t) = 1 /\ t[1] \in JsonTokens
        THEN JsonValue(t[1])
        ELSE ErrorReport("json")

generate_report_unguarded(outcome) ==
    IF ~outcome.ok THEN NoReport
    ELSE LET report_text == strip(outcome.text)
         IN  IF IsFenced(report_text) /\ ~SplitRaises(report_text)
             THEN json_loads_lenient(strip(BeforeLastLine(AfterFirstLine(report_text))))
             ELSE json_loads_lenient(report_text)

\* generate_report(context), given what report_crew.kickoff() does
generate_report(outcome) ==
    IF ~outcome.ok THEN ErrorReport("model")
    ELSE LET report_text == strip(outcome.text)
         IN  IF IsFenced(report_text)
             THEN IF SplitRaises(report_text)
                  THEN ErrorReport("index")
                  ELSE json_loads(strip(BeforeLastLine(AfterFirstLine(report_text))))
             ELSE json_loads(report_text)

----------------------------------------------------------------------------
\* get_next_question

interview_steps ==
    << "What is the exact location, quality (e.g., sharp, dull), and severity (on a scale of 1-10) of the symptom?",
       "When did this symptom first start, and how has it changed over time (e.g., constant, intermittent)?",
       "What makes the symptom better, and what makes it worse?",
       "Are you experiencing any other related symptoms, even minor ones?" >>

ClosingPrompt ==
    <<"Is there anything else you think is important for a doctor to know about this symptom or your overall health right now?">>

Apology_raised == <<"Traceback (most recent call last)">>

Apology ==
    <<"I apologize, an error occurred. Can you please summarize your symptoms one more time?">>

\* The topic put in the prompt for a count of User turns; "" when the
\* closing prompt is returned without a model call
next_q(current_step) ==
    IF current_step = 0 THEN interview_steps[1]
    ELSE IF current_step <= Len(interview_steps) THEN interview_steps[current_step]
    ELSE ""

\* get_next_question(history, initial_symptom), given what
\* interview_crew.kickoff() does: the question returned and the call made
get_next_question(history, outcome) ==
    LET current_step == UserCount(history)
        topic == next_q(current_step)
    IN  IF topic = ""
        THEN [text |-> ClosingPrompt, call |-> NoCall]
        ELSE [text |-> IF outcome.ok THEN strip(outcome.text) ELSE Apology,
              call |-> ModelCall("interviewer", topic, outcome)]

----------------------------------------------------------------------------
\* State

VARIABLES
    interview_context,  \* the global dict of the process
    request,            \* the request being answered: handler and JSON body
    response,           \* what the handler returned for it
    model_call,         \* the kickoff() the handler made, if any
    handlers            \* the continue_interview requests in flight: where
                        \* each stands and the locals it holds

vars == <<interview_context, request, response, model_call, handlers>>

\* The threads that may run continue_interview at the same time
Handlers == {"A", "B"}

\* A thread that is not inside continue_interview
Idle == [pc |-> "idle", logged_id |-> 0, next_question |-> <<>>, report |-> NoReport]

InitialContext ==
    [ interview_id         |-> 1,
      conversation_history |-> <<>>,
      is_complete          |-> FALSE,
      initial_symptom      |-> None ]

Request(op, body) == [op |-> op, body |-> body]

NoResponse ==
    [ op |-> "none", status |-> 0, keys |-> {}, interview_id |-> 0,
      initial_question |-> None, next_question |-> None, is_complete |-> FALSE,
      report |-> NoReport, history |-> <<>> ]

\* jsonify({'error': ...}), status
ErrorResponse(op, status) ==
    [NoResponse EXCEPT !.op = op, !.status = status, !.keys = {"error"}]

----------------------------------------------------------------------------
\* start_interview

NextId_same(id) == id

\* interview_context['interview_id'] + 1
NextId(id) == id + 1

initial_question_plain(initial_symptom) ==
    <<"Thank you for sharing your symptom. To begin, can you tell me when you first noticed this symptom?">>

\* The f-string of the opening question
initial_question(initial_symptom) ==
    <<"Thank you for sharing your symptom: '">> \o initial_symptom
        \o <<"'. To begin, can you tell me when you first noticed this symptom?">>

\* The handler: the context it leaves and the response it returns
start_interview(ctx, body) ==
    IF ReadRaises(body)
    THEN [ctx |-> ctx, resp |-> ErrorResponse("start", 500)]
    ELSE LET initial_symptom == ReadField(body)
         IN  IF initial_symptom = <<>>
             THEN [ctx |-> ctx, resp |-> ErrorResponse("start", 400)]
             ELSE LET new ==
                          [ interview_id         |-> NextId(ctx.interview_id),
                            conversation_history |->
                                << Turn("User", initial_symptom),
                                   Turn("Agent", initial_question(initial_symptom)) >>,
                            is_complete          |-> FALSE,
                            initial_symptom      |-> Some(initial_symptom) ]
                  IN  [ ctx  |-> new,
                        resp |-> [NoResponse EXCEPT
                                    !.op = "start", !.status = 200,
                                    !.keys = {"interview_id", "initial_question", "history"},
                                    !.interview_id = new.interview_id,
                                    !.initial_question = Some(initial_question(initial_symptom)),
                                    !.history = new.conversation_history] ]

----------------------------------------------------------------------------
\* continue_interview

AlreadyComplete_never(ctx) == FALSE

\* if interview_context["is_complete"]
AlreadyComplete(ctx) == ctx.is_complete

ReadyForReport_early(user_turn_count) == user_turn_count >= 4

ReadyForReport_late(user_turn_count) == user_turn_count >= 6

\* if user_turn_count >= 5
ReadyForReport(user_turn_count) == user_turn_count >= 5

ForceComplete_skipped(ctx) == ctx

\* The except clause: interview_context["is_complete"] = True
ForceComplete(ctx) == [ctx EXCEPT !.is_complete = TRUE]

append_front(history, turn) == <<turn>> \o history

\* interview_context["conversation_history"].append(turn)
append(history, turn) == Append(history, turn)

ClosingTurn ==
    Turn("System", <<"The interview is complete. Thank you for your patience. I have generated a structured report for review. Please find the JSON report below.">>)

\* The jsonify of the completing branch
CompleteResponse(interview_id, report, history) ==
    [NoResponse EXCEPT
        !.op = "continue", !.status = 200,
        !.keys = {"interview_id", "next_question", "is_complete", "structured_report", "history"},
        !.interview_id = interview_id,
        !.next_question = None,
        !.is_complete = TRUE,
        !.report = report,
        !.history = history]

\* The jsonify of the branch that asks the next question
QuestionResponse(interview_id, next_question, history) ==
    [NoResponse EXCEPT
        !.op = "continue", !.status = 200,
        !.keys = {"interview_id", "next_question", "is_complete", "history"},
        !.interview_id = interview_id,
        !.next_question = Some(next_question),
        !.is_complete = FALSE,
        !.history = history]

\* The handler, given what the two crews would answer: the context it
\* leaves, the response it returns and the model call it made
continue_interview(ctx, body, question_outcome, report_outcome) ==
    IF AlreadyComplete(ctx)
    THEN [ctx |-> ctx, resp |-> ErrorResponse("continue", 400), call |-> NoCall]
    ELSE IF ReadRaises(body)
    THEN [ ctx  |-> ForceComplete(ctx),
           resp |-> ErrorResponse("continue", 500), call |-> NoCall ]
    ELSE LET user_response == ReadField(body)
         IN  IF user_response = <<>>
             THEN [ctx |-> ctx, resp |-> ErrorResponse("continue", 400), call |-> NoCall]
             ELSE LET appended == append(ctx.conversation_history, Turn("User", user_response))
                      user_turn_count == UserCount(appended)
                  IN  IF ReadyForReport(user_turn_count)
                      THEN LET report == generate_report(report_outcome)
                               history == append(appended, ClosingTurn)
                           IN  [ ctx  |-> [ctx EXCEPT !.is_complete = TRUE,
                                                     !.conversation_history = history],
                                 resp |-> CompleteResponse(ctx.interview_id, report, history),
                                 call |-> ModelCall("report", "", report_outcome) ]
                      ELSE LET q == get_next_question(appended, question_outcome)
                               history == append(appended, Turn("Agent", q.text))
                           IN  [ ctx  |-> [ctx EXCEPT !.conversation_history = history],
                                 resp |-> QuestionResponse(ctx.interview_id, q.text, history),
                                 call |-> q.call ]

----------------------------------------------------------------------------
\* get_report

ReportAllowed_by_turns(ctx) == UserCount(ctx.conversation_history) >= 5

\* the negation of: if not interview_context["is_complete"]
ReportAllowed(ctx) == ctx.is_complete

get_report(ctx, report_outcome) ==
    IF ~ReportAllowed(ctx)
    THEN [resp |-> ErrorResponse("report", 400), call |-> NoCall]
    ELSE [ resp |-> [NoResponse EXCEPT !.op = "report", !.status = 200,
                                       !.report = generate_report(report_outcome)],
           call |-> ModelCall("report", "", report_outcome) ]

----------------------------------------------------------------------------
\* The requests, handled one at a time

Init ==
    /\ interview_context = InitialContext
    /\ request = Request("none", NoBody)
    /\ response = NoResponse
    /\ model_call = NoCall
    /\ handlers = [t \in Handlers |-> Idle]

StartInterview ==
    \E body \in Bodies :
        LET r == start_interview(interview_context, body)
        IN  /\ r.ctx.interview_id <= MaxId
            /\ interview_context' = r.ctx
            /\ request' = Request("start", body)
            /\ response' = r.resp
            /\ model_call' = NoCall
            /\ UNCHANGED handlers

ContinueInterview ==
    \E body \in Bodies : \E o \in OutcomesFor(body) :
        LET r == continue_interview(interview_context, body, o.question, o.report)
        IN  /\ interview_context' = r.ctx
            /\ request' = Request("continue", body)
            /\ response' = r.resp
            /\ model_call' = r.call
            /\ UNCHANGED handlers

GetReport_storing ==
    \E report_outcome \in ReportOutcomes :
        LET r == get_report(interview_context, report_outcome)
        IN  /\ request' = Request("report", NoBody)
            /\ response' = r.resp
            /\ model_call' = r.call
            /\ interview_context' =
                  [interview_context EXCEPT !.conversation_history =
                      IF r.resp.status = 200 THEN append(@, ClosingTurn) ELSE @]
            /\ UNCHANGED handlers

GetReport ==
    \E report_outcome \in ReportOutcomes :
        LET r == get_report(interview_context, report_outcome)
        IN  /\ request' = Request("report", NoBody)
            /\ response' = r.resp
            /\ model_call' = r.call
            /\ UNCHANGED <<interview_context, handlers>>

Next == StartInterview \/ ContinueInterview \/ GetReport

Spec == Init /\ [][Next]_vars

----------------------------------------------------------------------------
\* Requests handled by threads that share interview_context without a lock.
\* continue_interview is cut where another thread can run in between: after
\* the append of the User turn, after the count, and around the call of the
\* crew, during which the thread waits. Every step reads the global name
\* interview_context anew, as the handler does.

\* Bodies and answers considered for the interleaved requests
ConcBodies == {NoBody, ObjectBody("str", <<"h">>)}

ConcStartBodies == {ObjectBody("str", <<" ", "k", "\n">>)}

ConcQuestionOutcomes == {Returned(<<"\n", "q", " ">>)}

ConcReportOutcomes == {Returned(<<"{report}">>)}

finish_guarded(ctx, logged_id, turn) ==
    IF ctx.interview_id = logged_id
    THEN [ctx EXCEPT !.conversation_history = append(@, turn)]
    ELSE ctx

\* interview_context["conversation_history"].append(turn) after the crew has
\* answered: on the dict the global name is bound to by then, whatever the
\* id the request began with
finish(ctx, logged_id, turn) ==
    [ctx EXCEPT !.conversation_history = append(@, turn)]

\* Lines 220-236: the is_complete test, the body, the append of the User
\* turn. A request that is rejected is answered at once.
ContinueBegin(t) ==
    /\ handlers[t].pc = "idle"
    /\ \E body \in ConcBodies :
          LET r == continue_interview(interview_context, body, Raised, Raised)
          IN  /\ request' = Request("continue", body)
              /\ IF r.resp.status # 200
                 THEN /\ interview_context' = r.ctx
                      /\ response' = r.resp
                      /\ model_call' = NoCall
                      /\ UNCHANGED handlers
                 ELSE /\ interview_context' =
                            [interview_context EXCEPT !.conversation_history =
                                append(@, Turn("User", ReadField(body)))]
                      /\ handlers' = [handlers EXCEPT ![t] =
                            [Idle EXCEPT !.pc = "appended",
                                         !.logged_id = interview_context.interview_id]]
                      /\ UNCHANGED <<response, model_call>>

\* Lines 239-242: the count of User turns and, at the threshold, is_complete
ContinueCount(t) ==
    /\ handlers[t].pc = "appended"
    /\ LET user_turn_count == UserCount(interview_context.conversation_history)
       IN  IF ReadyForReport(user_turn_count)
           THEN /\ interview_context' = [interview_context EXCEPT !.is_complete = TRUE]
                /\ handlers' = [handlers EXCEPT ![t].pc = "report"]
           ELSE /\ handlers' = [handlers EXCEPT ![t].pc = "question"]
                /\ UNCHANGED interview_context
    /\ UNCHANGED <<request, response, model_call>>

\* Lines 245 and 261-264: generate_report or get_next_question, which counts
\* the User turns again, is entered and its crew answers
ContinueCall(t) ==
    /\ handlers[t].pc \in {"question", "report"}
    /\ IF handlers[t].pc = "question"
       THEN \E outcome \in ConcQuestionOutcomes :
               LET q == get_next_question(interview_context.conversation_history, outcome)
               IN  /\ handlers' = [handlers EXCEPT ![t].pc = "waiting_question",
                                                   ![t].next_question = q.text]
                   /\ model_call' = q.call
       ELSE \E outcome \in ConcReportOutcomes :
               /\ handlers' = [handlers EXCEPT ![t].pc = "waiting_report",
                                               ![t].report = generate_report(outcome)]
               /\ model_call' = ModelCall("report", "", outcome)
    /\ UNCHANGED <<interview_context, request, response>>

\* Lines 247-258 and 267-277: the append of the System or Agent turn and the
\* response
ContinueFinish(t) ==
    /\ handlers[t].pc \in {"waiting_question", "waiting_report"}
    /\ LET turn == IF handlers[t].pc = "waiting_report"
                   THEN ClosingTurn
                   ELSE Turn("Agent", handlers[t].next_question)
           ctx == finish(interview_context, handlers[t].logged_id, turn)
       IN  /\ interview_context' = ctx
           /\ response' =
                 IF handlers[t].pc = "waiting_report"
                 THEN CompleteResponse(ctx.interview_id, handlers[t].report,
                                       ctx.conversation_history)
                 ELSE QuestionResponse(ctx.interview_id, handlers[t].next_question,
                                       ctx.conversation_history)
    /\ handlers' = [handlers EXCEPT ![t] = Idle]
    /\ UNCHANGED <<request, model_call>>

\* start_interview, run while continue_interview requests may be in flight
ConcStart ==
    \E body \in ConcStartBodies :
        LET r == start_interview(interview_context, body)
        IN  /\ r.ctx.interview_id <= MaxId
            /\ interview_context' = r.ctx
            /\ request' = Request("start", body)
            /\ response' = r.resp
            /\ model_call' = NoCall
            /\ UNCHANGED handlers

\* get_report, run while continue_interview requests may be in flight
ConcReport ==
    \E report_outcome \in ConcReportOutcomes :
        LET r == get_report(interview_context, report_outcome)
        IN  /\ request' = Request("report", NoBody)
            /\ response' = r.resp
            /\ model_call' = r.call
            /\ UNCHANGED <<interview_context, handlers>>

ConcNext ==
    \/ ConcStart
    \/ ConcReport
    \/ \E t \in Handlers : ContinueBegin(t)
    \/ \E t \in Handlers : ContinueCount(t)
    \/ \E t \in Handlers : ContinueCall(t)
    \/ \E t \in Handlers : ContinueFinish(t)

SpecConc == Init /\ [][ConcNext]_vars

----------------------------------------------------------------------------
\* Properties of the serialized handlers

\* C1: in a session created by a successful start_interview, the response
\* to the k-th accepted continue_interview (k = User turns - 1) has
\* is_complete false and a non-null next_question for k = 1, 2, 3, and has
\* is_complete true, next_question null and a structured_report for k = 4;
\* there is no 5th accepted continue.
C1_AcceptedContinueResponses ==
    (response.op = "continue" /\ response.status = 200
        /\ interview_context.initial_symptom.some) =>
        LET k == UserCount(interview_context.conversation_history) - 1
        IN  /\ k \in 1..4
            /\ "next_question" \in response.keys /\ "is_complete" \in response.keys
            /\ k \in 1..3 => /\ ~response.is_complete
                             /\ response.next_question.some
                             /\ "structured_report" \notin response.keys
            /\ k = 4 => /\ response.is_complete
                        /\ ~response.next_question.some
                        /\ "structured_report" \in response.keys

\* The 4th accepted continue of a started session, answered while the report
\* crew fails
C1_Witness ==
    /\ response.op = "continue" /\ response.status = 200
    /\ interview_context.initial_symptom.some
    /\ UserCount(interview_context.conversation_history) = 5
    /\ response.is_complete /\ ~response.next_question.some
    /\ model_call.agent = "report" /\ ~model_call.outcome.ok

\* C2: after start_interview, the topic handed to the model on the k-th
\* accepted continue_interview, k = 1..4, is the k-th entry of
\* interview_steps.
C2_TopicsInListOrder ==
    (response.op = "continue" /\ response.status = 200
        /\ interview_context.initial_symptom.some) =>
        LET k == UserCount(interview_context.conversation_history) - 1
        IN  /\ k \in 1..4
            /\ model_call.agent = "interviewer"
            /\ model_call.topic = interview_steps[k]

\* C3: a continue_interview handled while is_complete is true returns 400,
\* whatever its body, and leaves the whole context unchanged.
C3_CompleteRejectsContinue ==
    [][(interview_context.is_complete /\ request'.op = "continue") =>
          (response'.status = 400 /\ interview_context' = interview_context)]_vars

\* A continue without a JSON body, answered 400 because the interview was
\* complete
C3_Witness ==
    /\ interview_context.is_complete
    /\ request.op = "continue" /\ request.body = NoBody
    /\ response.status = 400

\* C4: get_report answers 400 when is_complete is false and 200 when it is
\* true, whatever the report crew does.
C4_ReportStatus ==
    [][request'.op = "report" =>
          response'.status = (IF interview_context.is_complete THEN 200 ELSE 400)]_vars

\* get_report answered 200 although the model call failed
C4_Witness ==
    /\ request.op = "report" /\ response.status = 200
    /\ interview_context.is_complete
    /\ model_call.agent = "report" /\ ~model_call.outcome.ok

\* C5 (as stated): every Report returned with 200, by get_report or as
\* structured_report, holds exactly the 3 sections with the fixed headings,
\* whatever the model answered.
C5_AlwaysThreeSections ==
    (response.status = 200
        /\ (response.op = "report" \/ "structured_report" \in response.keys)) =>
        response.report.sections = FixedHeadings

\* C5 (amended): a Report returned with 200 is an error object when the
\* model call failed, and otherwise either an error object or a JSON
\* document of the model's own text, unchanged; it holds the 3 fixed
\* headings only if the model's text holds that document, and it does so
\* when the text is that document alone.
C5_ReportIsModelOutputOrError ==
    (response.status = 200
        /\ (response.op = "report" \/ "structured_report" \in response.keys)) =>
        LET out == model_call.outcome
        IN  /\ model_call.agent = "report"
            /\ ~out.ok => response.report.kind = "error"
            /\ \/ response.report.kind = "error"
               \/ \E i \in DOMAIN out.text :
                     /\ out.text[i] \in JsonTokens
                     /\ response.report = JsonValue(out.text[i])
            /\ response.report.sections = FixedHeadings =>
                  \E i \in DOMAIN out.text : out.text[i] = "{report}"
            /\ (out.ok /\ out.text = <<"{report}">>) =>
                  response.report.sections = FixedHeadings

\* get_report answered 200 with a JSON object of another shape
C5_Witness ==
    /\ response.op = "report" /\ response.status = 200
    /\ response.report.kind = "object"
    /\ response.report.sections # FixedHeadings

\* C6: a start_interview or continue_interview whose field is absent from
\* the JSON object, empty or made of whitespace only returns 400 and leaves
\* the whole context unchanged, in every state.
C6_EmptyInputRejected ==
    [][(/\ request'.op \in {"start", "continue"}
        /\ request'.body.kind = "object"
        /\ \/ request'.body.ftype = "absent"
           \/ /\ request'.body.ftype = "str"
              /\ \A i \in DOMAIN request'.body.text :
                    request'.body.text[i] \in Whitespace) =>
          (response'.status = 400 /\ interview_context' = interview_context)]_vars

\* A whitespace-only user_response rejected while an interview is in progress
C6_Witness ==
    /\ request.op = "continue"
    /\ request.body = ObjectBody("str", <<" ">>)
    /\ response.status = 400
    /\ ~interview_context.is_complete
    /\ Len(interview_context.conversation_history) = 4

\* C7 (as stated): a start_interview with a symptom S that is non-empty
\* after trimming yields the history <<{User, S}, {Agent, opening question
\* containing S}>>, is_complete false, initial_symptom S and id + 1.
C7_StartYieldsSessionOfS ==
    [][(/\ request'.op = "start"
        /\ request'.body.kind = "object" /\ request'.body.ftype = "str"
        /\ \E i \in DOMAIN request'.body.text :
              request'.body.text[i] \notin Whitespace) =>
          LET S == request'.body.text
              history == interview_context'.conversation_history
          IN  /\ Len(history) = 2
              /\ history[1] = [role |-> "User", text |-> S]
              /\ history[2].role = "Agent"
              /\ Len(history[2].text) = Len(S) + 2
              /\ SubSeq(history[2].text, 2, Len(S) + 1) = S
              /\ ~interview_context'.is_complete
              /\ interview_context'.initial_symptom = [some |-> TRUE, text |-> S]
              /\ interview_context'.interview_id = interview_context.interview_id + 1]_vars

\* C7 (amended): the same with S replaced by S trimmed, T: the history is
\* <<{User, T}, {Agent, the fixed opening question around T}>>,
\* initial_symptom is T, is_complete is false and the id is the previous
\* id + 1.
C7_StartYieldsSessionOfTrimmedS ==
    [][(/\ request'.op = "start"
        /\ request'.body.kind = "object" /\ request'.body.ftype = "str"
        /\ \E i \in DOMAIN request'.body.text :
              request'.body.text[i] \notin Whitespace) =>
          LET S == request'.body.text
              kept == {i \in DOMAIN S : S[i] \notin Whitespace}
              T == SubSeq(S, Min(kept), Max(kept))
              history == interview_context'.conversation_history
          IN  /\ response'.status = 200
              /\ Len(history) = 2
              /\ history[1] = [role |-> "User", text |-> T]
              /\ history[2].role = "Agent"
              /\ Len(history[2].text) = Len(T) + 2
              /\ SubSeq(history[2].text, 2, Len(T) + 1) = T
              /\ history[2].text[1] = "Thank you for sharing your symptom: '"
              /\ history[2].text[Len(T) + 2] =
                    "'. To begin, can you tell me when you first noticed this symptom?"
              /\ response'.initial_question = [some |-> TRUE, text |-> history[2].text]
              /\ ~interview_context'.is_complete
              /\ interview_context'.initial_symptom = [some |-> TRUE, text |-> T]
              /\ interview_context'.interview_id = interview_context.interview_id + 1]_vars

\* A start with a padded symptom, accepted over an earlier session
C7_Witness ==
    /\ request.op = "start"
    /\ request.body = ObjectBody("str", <<" ", "k", "\n">>)
    /\ response.status = 200
    /\ interview_context.interview_id = 3
    /\ interview_context.initial_symptom = Some(<<"k">>)

\* C8: a successful start_interview leaves a history of exactly the two
\* turns it builds (one User turn, one Agent turn, nothing of the prior
\* transcript), and answers with an id strictly greater than the previous
\* one; no step ever lowers the id, so ids increase strictly from start to
\* start.
C8_StartDiscardsTranscriptIdsIncrease ==
    [][/\ interview_context'.interview_id >= interview_context.interview_id
       /\ (request'.op = "start" /\ response'.status = 200) =>
             /\ interview_context'.interview_id > interview_context.interview_id
             /\ response'.interview_id = interview_context'.interview_id
             /\ Len(interview_context'.conversation_history) = 2
             /\ interview_context'.conversation_history[1].role = "User"
             /\ interview_context'.conversation_history[2].role = "Agent"
             /\ \A i \in DOMAIN interview_context'.conversation_history :
                   interview_context'.conversation_history[i].text
                       \notin {Apology, <<"q">>, ClosingTurn.text}
             /\ response'.history = interview_context'.conversation_history]_vars

\* A second successful start: the session it replaced was itself started
C8_Witness ==
    /\ request.op = "start" /\ response.status = 200
    /\ response.interview_id = 3
    /\ Len(interview_context.conversation_history) = 2

\* C9: a continue_interview with a non-empty user_response, handled before
\* any successful start_interview, returns 400 and appends no turn.
C9_ContinueWithoutSessionRejected ==
    [][(/\ request'.op = "continue"
        /\ ~interview_context.initial_symptom.some
        /\ request'.body.kind = "object" /\ request'.body.ftype = "str"
        /\ \E i \in DOMAIN request'.body.text :
              request'.body.text[i] \notin Whitespace) =>
          (/\ response'.status = 400
           /\ interview_context'.conversation_history
                 = interview_context.conversation_history)]_vars

\* C10 (as stated): is_complete is true only if the history holds at least
\* 5 User turns, and is true whenever it holds 5.
C10_CompleteIffFiveUserTurns ==
    interview_context.is_complete
        <=> UserCount(interview_context.conversation_history) >= 5

\* C10 (amended): is_complete goes from false to true only in a
\* continue_interview that either appends the User turn bringing the count
\* to 5 or ends in the unexpected failure (500) with the history untouched;
\* a continue that appends the 5th User turn always sets it, so a history
\* with 5 User turns is complete, and no history holds more than 5.
C10_CompletionSteps ==
    /\ [](UserCount(interview_context.conversation_history) <= 5)
    /\ [](UserCount(interview_context.conversation_history) = 5
            => interview_context.is_complete)
    /\ [][/\ (~interview_context.is_complete /\ interview_context'.is_complete) =>
                /\ request'.op = "continue"
                /\ \/ /\ response'.status = 200
                      /\ UserCount(interview_context.conversation_history) = 4
                      /\ UserCount(interview_context'.conversation_history) = 5
                   \/ /\ response'.status = 500
                      /\ interview_context'.conversation_history
                            = interview_context.conversation_history
          /\ (/\ request'.op = "continue"
              /\ UserCount(interview_context.conversation_history) = 4
              /\ UserCount(interview_context'.conversation_history) = 5) =>
                interview_context'.is_complete]_vars

\* The continue that appended the 5th User turn of a started session
C10_Witness ==
    /\ request.op = "continue" /\ response.status = 200
    /\ interview_context.is_complete
    /\ UserCount(interview_context.conversation_history) = 5
    /\ interview_context.conversation_history[9].role = "User"

\* C11: is_complete, once true, stays true across every continue_interview,
\* get_report and rejected or failed start_interview; the only step that
\* takes it from true to false is a successful start_interview, which also
\* changes the interview id.
C11_CompleteUntilNextStart ==
    [][/\ (interview_context.is_complete /\ ~interview_context'.is_complete) =>
             /\ request'.op = "start" /\ response'.status = 200
             /\ interview_context'.interview_id # interview_context.interview_id
       /\ (interview_context.is_complete
             /\ ~(request'.op = "start" /\ response'.status = 200)) =>
             interview_context'.is_complete]_vars

\* A start rejected with 400 while the session is complete, which stays so
C11_Witness ==
    /\ request.op = "start" /\ response.status = 400
    /\ interview_context.is_complete
    /\ UserCount(interview_context.conversation_history) = 5

\* C12: a continue_interview that ends in the unexpected failure (its body
\* missing, not an object, or its user_response not a string, while the
\* session is not complete) returns 500 and leaves is_complete true; the
\* request after a 500 continue is then answered 400 if it is a continue
\* and 200 if it is a get_report.
C12_FailureForcesCompletion ==
    [][/\ (request'.op = "continue" /\ response'.status = 500) =>
             interview_context'.is_complete
       /\ (/\ request'.op = "continue"
           /\ ~interview_context.is_complete
           /\ \/ request'.body.kind # "object"
              \/ request'.body.ftype = "other") =>
             (response'.status = 500 /\ interview_context'.is_complete)
       /\ (response.op = "continue" /\ response.status = 500) =>
             /\ request'.op = "continue" => response'.status = 400
             /\ request'.op = "report" => response'.status = 200]_vars

\* A continue whose user_response is not a string, answered 500 on a
\* started session of 2 User turns, which it leaves complete
C12_Witness ==
    /\ request.op = "continue" /\ request.body = ObjectBody("other", <<>>)
    /\ response.status = 500
    /\ interview_context.is_complete
    /\ interview_context.initial_symptom.some
    /\ UserCount(interview_context.conversation_history) = 2

\* C13: when the interviewer crew fails during a continue_interview that
\* does not reach the threshold, the handler returns 200 with next_question
\* equal to the fixed apology and is_complete false, the history ends with
\* the user's turn followed by the apology as an Agent turn, and the
\* session is not complete.
C13_QuestionFailureAbsorbed ==
    [][(/\ request'.op = "continue"
        /\ model_call'.agent = "interviewer" /\ ~model_call'.outcome.ok) =>
          LET before == interview_context.conversation_history
              history == interview_context'.conversation_history
              sorry == <<"I apologize, an error occurred. Can you please summarize your symptoms one more time?">>
          IN  /\ response'.status = 200
              /\ response'.next_question = [some |-> TRUE, text |-> sorry]
              /\ "is_complete" \in response'.keys /\ ~response'.is_complete
              /\ Len(history) = Len(before) + 2
              /\ SubSeq(history, 1, Len(before)) = before
              /\ history[Len(history) - 1].role = "User"
              /\ history[Len(history)] = [role |-> "Agent", text |-> sorry]
              /\ ~interview_context'.is_complete]_vars

\* The 3rd continue of a started session, answered with the apology
C13_Witness ==
    /\ request.op = "continue" /\ response.status = 200
    /\ model_call.agent = "interviewer" /\ ~model_call.outcome.ok
    /\ interview_context.initial_symptom.some
    /\ Len(interview_context.conversation_history) = 8
    /\ response.next_question.some /\ ~response.is_complete

\* C14: when the report crew fails, or answers a text holding no JSON
\* document, the completing continue_interview still returns 200 with
\* is_complete true and an error object as structured_report, the session
\* is complete with the System closing turn last, and get_report returns
\* 200 with an error object.
C14_SynthesisFailureAbsorbed ==
    (/\ model_call.agent = "report"
     /\ \/ ~model_call.outcome.ok
        \/ \A i \in DOMAIN model_call.outcome.text :
              model_call.outcome.text[i] \notin JsonTokens) =>
        /\ response.status = 200
        /\ response.report.kind = "error"
        /\ interview_context.is_complete
        /\ response.op \in {"continue", "report"}
        /\ response.op = "continue" =>
              LET history == interview_context.conversation_history
              IN  /\ response.is_complete
                  /\ "structured_report" \in response.keys
                  /\ ~response.next_question.some
                  /\ history[Len(history)].role = "System"
                  /\ history[Len(history) - 1].role = "User"

\* The completing continue answered while the report crew returns prose
C14_Witness ==
    /\ request.op = "continue" /\ response.status = 200
    /\ model_call.agent = "report" /\ model_call.outcome = Returned(<<"prose">>)
    /\ response.report.kind = "error"
    /\ "structured_report" \in response.keys

\* C15: with requests handled one at a time, the history of a session
\* created by start_interview begins {User, initial_symptom}, {Agent,
\* opening question}; with n User turns, n <= 4, it has 2n turns whose roles
\* alternate User, Agent, and the last one is the next_question just
\* returned; with 5 User turns it has 10 turns, ending with a User turn and
\* the only System turn; it never holds more than 5 User turns.
C15_HistoryShape ==
    interview_context.initial_symptom.some =>
        LET history == interview_context.conversation_history
            n == UserCount(history)
        IN  /\ n \in 1..5
            /\ Len(history) = 2 * n
            /\ history[1] = [role |-> "User", text |-> interview_context.initial_symptom.text]
            /\ history[2].role = "Agent"
            /\ history[2].text[1] = "Thank you for sharing your symptom: '"
            /\ \A i \in 1..(2 * n - 1) :
                  history[i].role = (IF i % 2 = 1 THEN "User" ELSE "Agent")
            /\ history[2 * n].role = (IF n = 5 THEN "System" ELSE "Agent")
            /\ (response.op = "continue" /\ response.status = 200 /\ n <= 4) =>
                  response.next_question = [some |-> TRUE, text |-> history[2 * n].text]
            /\ (response.op = "continue" /\ response.status = 200) =>
                  response.history = history

\* The history after the 4th accepted continue of a started session
C15_Witness ==
    /\ interview_context.initial_symptom.some
    /\ request.op = "continue" /\ response.status = 200
    /\ Len(interview_context.conversation_history) = 10
    /\ interview_context.conversation_history[10].role = "System"

\* C16: every step other than a successful start_interview leaves the
\* previous history as a prefix of the new one: no turn is removed,
\* reordered or rewritten.
C16_HistoryOnlyGrows ==
    [][~(request'.op = "start" /\ response'.status = 200) =>
          LET before == interview_context.conversation_history
              history == interview_context'.conversation_history
          IN  /\ Len(history) >= Len(before)
              /\ \A i \in DOMAIN before : history[i] = before[i]]_vars

\* A continue that appended its two turns to a history of 6
C16_Witness ==
    /\ request.op = "continue" /\ response.status = 200
    /\ Len(interview_context.conversation_history) = 8

\* C17: get_report changes nothing of the context (id, history,
\* initial_symptom, is_complete), whatever the report crew answers.
C17_ReportReadOnly ==
    [][request'.op = "report" => interview_context' = interview_context]_vars

\* get_report answered 200 with the requested document
C17_Witness ==
    /\ request.op = "report" /\ response.status = 200
    /\ response.report.sections = FixedHeadings
    /\ interview_context.is_complete

\* C19: with requests handled one at a time, every call of the interviewer
\* crew carries one of the four topics (the count of User turns is 1 to 4
\* when get_next_question runs), and the closing prompt is never a
\* next_question nor the text of a turn.
C19_ClosingPromptUnused ==
    LET closing == <<"Is there anything else you think is important for a doctor to know about this symptom or your overall health right now?">>
        history == interview_context.conversation_history
    IN  /\ response.next_question.text # closing
        /\ \A i \in DOMAIN history : history[i].text # closing
        /\ model_call.agent = "interviewer" =>
              /\ \E k \in 1..4 : model_call.topic = interview_steps[k]
              /\ UserCount(history) \in 1..4
        /\ (response.op = "continue" /\ response.status = 200 /\ ~response.is_complete) =>
              model_call.agent = "interviewer"

\* A question asked at 4 User turns, the last count that reaches the crew
C19_Witness ==
    /\ request.op = "continue" /\ response.status = 200
    /\ model_call.agent = "interviewer"
    /\ model_call.topic = interview_steps[4]
    /\ UserCount(interview_context.conversation_history) = 4

----------------------------------------------------------------------------
\* Properties of the interleaved handlers

\* C18: nothing guards the global session: a continue_interview can append
\* its User turn while another one stands between its own append and its
\* reply, and this is the only way in which two adjacent User turns or a
\* 6th User turn enter a history; such histories, which the handlers run
\* one at a time never produce, are reachable.
C18_InterleavedAppends ==
    [][LET before == interview_context.conversation_history
           history == interview_context'.conversation_history
           Adjacent(h) == \E i \in 1..(Len(h) - 1) :
                             h[i].role = "User" /\ h[i + 1].role = "User"
       IN  ((~Adjacent(before) /\ Adjacent(history))
               \/ (UserCount(before) <= 5 /\ UserCount(history) > 5)) =>
              \E t \in Handlers :
                 /\ handlers[t].pc = "idle" /\ handlers'[t].pc = "appended"
                 /\ \E u \in Handlers \ {t} : handlers[u].pc # "idle"]_vars

\* Both requests answered: a history of a started session with two
\* adjacent User turns, 6 User turns and two System turns
C18_Witness ==
    LET history == interview_context.conversation_history
    IN  /\ interview_context.initial_symptom.some
        /\ \A t \in Handlers : handlers[t].pc = "idle"
        /\ UserCount(history) = 6
        /\ \E i \in 1..(Len(history) - 1) :
              history[i].role = "User" /\ history[i + 1].role = "User"
        /\ Cardinality({i \in DOMAIN history : history[i].role = "System"}) = 2

\* C20: a continue_interview that began under another interview id than
\* the current one (a start_interview succeeded while it was in flight)
\* appends its Agent or System turn to the current session's history
\* and answers with the current id, leaving is_complete of that session as
\* it is; a session that is not complete can thus hold the System turn.
C20_ReplyLandsInNewSession ==
    [][\A t \in Handlers :
          (/\ handlers[t].pc \in {"waiting_question", "waiting_report"}
           /\ handlers'[t].pc = "idle"
           /\ handlers[t].logged_id # interview_context.interview_id) =>
             LET before == interview_context.conversation_history
                 history == interview_context'.conversation_history
             IN  /\ Len(history) = Len(before) + 1
                 /\ SubSeq(history, 1, Len(before)) = before
                 /\ history[Len(history)].role =
                       (IF handlers[t].pc = "waiting_report" THEN "System" ELSE "Agent")
                 /\ response'.op = "continue" /\ response'.status = 200
                 /\ response'.interview_id = interview_context.interview_id
                 /\ response'.history = history
                 /\ interview_context'.interview_id = interview_context.interview_id
                 /\ interview_context'.is_complete = interview_context.is_complete
                 /\ interview_context'.initial_symptom = interview_context.initial_symptom]_vars

\* Session 3, just started and not complete, holding the System turn of the
\* continue that completed session 2
C20_Witness ==
    LET history == interview_context.conversation_history
    IN  /\ interview_context.interview_id = 3
        /\ ~interview_context.is_complete
        /\ Len(history) = 3
        /\ history[3] = ClosingTurn
        /\ response.op = "continue" /\ response.interview_id = 3
        /\ response.is_complete

====
